---- MODULE Spec2Model ----
(***************************************************************************)
(* A model of package timekit (conversion.go): the epoch-millisecond,      *)
(* ISO 8601 and Bubble conversions, To1AM and the month-abbreviation       *)
(* lookups, driven by a caller that invokes one function at a time and     *)
(* may feed a result into the next call.                                   *)
(*                                                                         *)
(* Strings are sequences of one-character strings.  A time.Time is the     *)
(* record [day, sod, nsec, loc]: the day number and second of the day      *)
(* counted from the Unix epoch in UTC, the nanosecond within the second,   *)
(* and the Location.  TLC's integers are 32 bits wide, so the int64 of the *)
(* code is scaled to IntBits bits where its range decides an outcome       *)
(* (strconv.ParseInt's range error) and every other quantity is computed   *)
(* exactly.                                                                *)
(***************************************************************************)
EXTENDS Integers, Sequences, FiniteSets, TLC

VARIABLES pc, fn, arg, out, err, from, clock,
          monthAbbreviations, monthNumberAbbreviations

vars == <<pc, fn, arg, out, err, from, clock,
          monthAbbreviations, monthNumberAbbreviations>>

(***************************************************************************)
(* Bounds of the model.                                                    *)
(***************************************************************************)
\* width of the scaled int64: values range over -2^(IntBits-1) .. 2^(IntBits-1)-1
IntBits == 12
\* longest string drawn letter by letter from Alphabet
MaxStrLen == 4
\* how many seconds the clock behind time.Now() may advance
MaxClock == 2
\* month keys tried by the lookups range over -MaxMonthKey .. 12+MaxMonthKey
MaxMonthKey == 3

MinInt == -(2^(IntBits - 1))
MaxInt == 2^(IntBits - 1) - 1
IntRange == MinInt..MaxInt

(***************************************************************************)
(* Go's integer arithmetic: / truncates toward zero, % takes the sign of   *)
(* the dividend.                                                           *)
(***************************************************************************)
Quot(a, b) == IF a >= 0 THEN a \div b ELSE -((-a) \div b)

Rem(a, b) == a - b * Quot(a, b)

(***************************************************************************)
(* Characters and decimal text.                                            *)
(***************************************************************************)
DigitChars == <<"0", "1", "2", "3", "4", "5", "6", "7", "8", "9">>

Digits == {DigitChars[k] : k \in 1..10}

isDigitChar(c) == c \in Digits

DigitVal(c) == CHOOSE k \in 0..9 : DigitChars[k + 1] = c

RECURSIVE NatToDigits(_)
NatToDigits(n) ==
  IF n < 10 THEN <<DigitChars[n + 1]>>
  ELSE NatToDigits(n \div 10) \o <<DigitChars[(n % 10) + 1]>>

\* strconv.FormatInt(i, 10): the text the caller hands to ParseJavaScriptTimeString
FormatInt(i) == IF i < 0 THEN <<"-">> \o NatToDigits(-i) ELSE NatToDigits(i)

RECURSIVE DigitsToNat(_)
DigitsToNat(s) ==
  IF s = <<>> THEN 0
  ELSE 10 * DigitsToNat(SubSeq(s, 1, Len(s) - 1)) + DigitVal(s[Len(s)])

AllDigits(s) == \A k \in 1..Len(s) : isDigitChar(s[k])

Drop(s, n) == SubSeq(s, n + 1, Len(s))

(***************************************************************************)
(* time.Location: the offset in force before the first transition and the  *)
(* transitions <<[when, offset]>> in increasing order of their Unix time.   *)
(***************************************************************************)
Alpha == -(2^30) - (2^30 - 1)
Omega == 2^30 + (2^30 - 1)

FixedZone(offset) == [init |-> offset, tx |-> <<>>]

UTC == FixedZone(0)

DaysFromCivil(year, month, d) ==
  LET y   == IF month <= 2 THEN year - 1 ELSE year
      era == y \div 400
      yoe == y - era * 400
      mp  == IF month > 2 THEN month - 3 ELSE month + 9
      doy == (153 * mp + 2) \div 5 + d - 1
      doe == yoe * 365 + yoe \div 4 - yoe \div 100 + doy
  IN  era * 146097 + doe - 719468

CivilFromDays(days) ==
  LET z   == days + 719468
      era == z \div 146097
      doe == z - era * 146097
      yoe == (doe - doe \div 1460 + doe \div 36524 - doe \div 146096) \div 365
      doy == doe - (365 * yoe + yoe \div 4 - yoe \div 100)
      mp  == (5 * doy + 2) \div 153
      d   == doy - (153 * mp + 2) \div 5 + 1
      m   == IF mp < 10 THEN mp + 3 ELSE mp - 9
      y   == yoe + era * 400
  IN  [year |-> IF m <= 2 THEN y + 1 ELSE y, month |-> m, day |-> d]

SecondsPerDay == 24 * 60 * 60

\* a zone like Europe/London in 2021: summer time from 28 March 01:00 UTC to
\* 31 October 01:00 UTC, so that local 01:00 to 01:59 of 28 March does not exist
London ==
  [init |-> 0,
   tx   |-> << [when |-> DaysFromCivil(2021, 3, 28) * SecondsPerDay + 3600, offset |-> 3600],
               [when |-> DaysFromCivil(2021, 10, 31) * SecondsPerDay + 3600, offset |-> 0] >>]

\* time.Local of the process
Local == London

\* (*Location).lookup: the offset in force at a Unix time and the bounds of its period
lookup(l, unix) ==
  IF l.tx = <<>> THEN [offset |-> l.init, start |-> Alpha, end |-> Omega]
  ELSE LET past == {k \in 1..Len(l.tx) : l.tx[k].when <= unix}
           k    == IF past = {} THEN 0 ELSE CHOOSE j \in past : \A q \in past : q <= j
       IN  [offset |-> IF k = 0 THEN l.init ELSE l.tx[k].offset,
            start  |-> IF k = 0 THEN Alpha ELSE l.tx[k].when,
            end    |-> IF k = Len(l.tx) THEN Omega ELSE l.tx[k + 1].when]

(***************************************************************************)
(* time.Time.                                                              *)
(***************************************************************************)
\* the Time whose instant is sec seconds and nsec nanoseconds (0 <= nsec < 1e9)
\* after the Unix epoch
unixTime(sec, nsec, l) ==
  [day |-> sec \div SecondsPerDay, sod |-> sec % SecondsPerDay, nsec |-> nsec, loc |-> l]

\* time.Time{}: January 1, year 1, 00:00:00 UTC
ZeroTime == [day |-> DaysFromCivil(1, 1, 1), sod |-> 0, nsec |-> 0, loc |-> UTC]

\* t.Unix()
Unix(t) == t.day * SecondsPerDay + t.sod

\* time.Unix(sec, nsec): nsec outside [0, 1e9) is carried into sec
timeUnix(sec, nsec) ==
  IF nsec < 0 \/ nsec >= 1000000000
  THEN LET n  == Quot(nsec, 1000000000)
           s1 == sec + n
           n1 == nsec - n * 1000000000
       IN  IF n1 < 0 THEN unixTime(s1 - 1, n1 + 1000000000, Local)
           ELSE unixTime(s1, n1, Local)
  ELSE unixTime(sec, nsec, Local)

\* the offset of t's zone at t; a zone without transitions is not looked up by time
offsetOf(t) == IF t.loc.tx = <<>> THEN t.loc.init ELSE lookup(t.loc, Unix(t)).offset

\* the calendar date and clock of t in its own zone (t.Date(), t.Clock())
Fields(t) ==
  LET s   == t.sod + offsetOf(t)
      dd  == t.day + s \div SecondsPerDay
      ss  == s % SecondsPerDay
      c   == CivilFromDays(dd)
  IN  [year |-> c.year, month |-> c.month, day |-> c.day,
       hour |-> ss \div 3600, min |-> (ss % 3600) \div 60, sec |-> ss % 60]

\* time.Now(): the clock reads November 1, 2026 plus the seconds that have passed
timeNow(c) == unixTime(DaysFromCivil(2026, 11, 1) * SecondsPerDay + c, 0, Local)

(***************************************************************************)
(* strconv.ParseInt(s, 10, bitSize).  The result is [n, err] with err one  *)
(* of "nil", "ErrSyntax", "ErrRange".                                      *)
(***************************************************************************)
\* strconv.ParseUint's loop over the digits, n the value read so far
RECURSIVE ParseUintFrom(_, _, _)
ParseUintFrom(s, n, maxVal) ==
  IF s = <<>> THEN [n |-> n, err |-> "nil"]
  ELSE IF ~isDigitChar(s[1]) THEN [n |-> 0, err |-> "ErrSyntax"]
  ELSE LET n1 == n * 10 + DigitVal(s[1])
       IN  IF n1 > maxVal THEN [n |-> maxVal, err |-> "ErrRange"]
           ELSE ParseUintFrom(Tail(s), n1, maxVal)

ParseUint(s, bitSize) ==
  IF s = <<>> THEN [n |-> 0, err |-> "ErrSyntax"]
  ELSE ParseUintFrom(s, 0, 2^bitSize - 1)

ParseInt(s, bitSize) ==
  IF s = <<>> THEN [n |-> 0, err |-> "ErrSyntax"]
  ELSE LET neg    == s[1] = "-"
           body   == IF s[1] \in {"+", "-"} THEN Tail(s) ELSE s
           un     == ParseUint(body, bitSize)
           cutoff == 2^(bitSize - 1)
       IN  IF un.err = "ErrSyntax" THEN [n |-> 0, err |-> "ErrSyntax"]
           ELSE IF ~neg /\ un.n >= cutoff THEN [n |-> cutoff - 1, err |-> "ErrRange"]
           ELSE IF neg /\ un.n > cutoff THEN [n |-> -cutoff, err |-> "ErrRange"]
           ELSE [n |-> IF neg THEN -un.n ELSE un.n, err |-> "nil"]

(***************************************************************************)
(* conversion.go: the epoch-millisecond conversions.                       *)
(***************************************************************************)
\* slip: the seconds rounded down instead of toward zero
ParseJavaScriptTimeFloor(i) == timeUnix(i \div 1000, Rem(i, 1000) * 1000 * 1000)

ParseJavaScriptTime(i) == timeUnix(Quot(i, 1000), Rem(i, 1000) * 1000 * 1000)

\* slip: the remainder scaled to microseconds
ParseJavaScriptTimeStringMicros(s, now) ==
  LET r == ParseInt(s, IntBits)
  IN  IF r.err # "nil" THEN [t |-> now, err |-> r.err]
      ELSE [t |-> timeUnix(Quot(r.n, 1000), Rem(r.n, 1000) * 1000), err |-> "nil"]

\* slip: the zero Time returned with the error
ParseJavaScriptTimeStringZero(s, now) ==
  LET r == ParseInt(s, IntBits)
  IN  IF r.err # "nil" THEN [t |-> ZeroTime, err |-> r.err]
      ELSE [t |-> timeUnix(Quot(r.n, 1000), Rem(r.n, 1000) * 1000 * 1000), err |-> "nil"]

\* the result is [t, err]; now is what time.Now() returns during the call
ParseJavaScriptTimeString(s, now) ==
  LET r == ParseInt(s, IntBits)
  IN  IF r.err # "nil" THEN [t |-> now, err |-> r.err]
      ELSE [t |-> timeUnix(Quot(r.n, 1000), Rem(r.n, 1000) * 1000 * 1000), err |-> "nil"]

\* slip: milliseconds, as the name says
ToJavaScriptTimeMillis(t) == Unix(t) * 1000 + t.nsec \div 1000000

ToJavaScriptTime(t) == Unix(t)

(***************************************************************************)
(* time.Date and the Format of layout time.RFC3339.                        *)
(***************************************************************************)
isLeap(year) == year % 4 = 0 /\ (year % 100 # 0 \/ year % 400 = 0)

daysIn(month, year) ==
  IF month = 2 THEN (IF isLeap(year) THEN 29 ELSE 28)
  ELSE IF month \in {4, 6, 9, 11} THEN 30 ELSE 31

\* the Time that is day days and sod seconds (of any sign) after the epoch
normTime(day, sod, nsec, l) ==
  [day |-> day + sod \div SecondsPerDay, sod |-> sod % SecondsPerDay, nsec |-> nsec, loc |-> l]

\* time.Date for fields that are in range: the wall clock reading is taken as
\* UTC first and then moved by the offset the zone has there
Date(year, month, day, hour, min, sec, nsec, l) ==
  LET d0 == DaysFromCivil(year, month, day)
      s0 == hour * 3600 + min * 60 + sec
  IN  IF l.tx = <<>> THEN normTime(d0, s0 - l.init, nsec, l)
      ELSE LET unix == d0 * SecondsPerDay + s0
               lk   == lookup(l, unix)
               utc  == unix - lk.offset
               off  == IF lk.offset = 0 THEN 0
                       ELSE IF utc < lk.start \/ utc >= lk.end THEN lookup(l, utc).offset
                       ELSE lk.offset
           IN  unixTime(unix - off, nsec, l)

\* appendInt: x in decimal, zero-padded to width, with a leading "-" when negative
RECURSIVE padZeros(_, _)
padZeros(s, width) == IF Len(s) >= width THEN s ELSE padZeros(<<"0">> \o s, width)

appendInt(x, width) ==
  IF x < 0 THEN <<"-">> \o padZeros(NatToDigits(-x), width)
  ELSE padZeros(NatToDigits(x), width)

\* the layout element Z07:00: "Z" for offset zero, else sign, hours and minutes
appendZone(offset) ==
  IF offset = 0 THEN <<"Z">>
  ELSE LET zone == Quot(offset, 60)
           abs  == IF zone < 0 THEN -zone ELSE zone
       IN  (IF zone < 0 THEN <<"-">> ELSE <<"+">>)
           \o appendInt(abs \div 60, 2) \o <<":">> \o appendInt(abs % 60, 2)

\* t.Format("2006-01-02T15:04:05Z07:00")
FormatRFC3339(t) ==
  LET f == Fields(t)
  IN  appendInt(f.year, 4) \o <<"-">> \o appendInt(f.month, 2) \o <<"-">>
      \o appendInt(f.day, 2) \o <<"T">> \o appendInt(f.hour, 2) \o <<":">>
      \o appendInt(f.min, 2) \o <<":">> \o appendInt(f.sec, 2)
      \o appendZone(offsetOf(t))

\* slip: a layout without the zone element
ToISO8601StringNoZone(t) == SubSeq(FormatRFC3339(t), 1, 19)

\* slip: the instant moved to UTC before it is formatted
ToISO8601StringUTC(t) == FormatRFC3339([t EXCEPT !.loc = UTC])

ToISO8601String(t) == FormatRFC3339(t)

(***************************************************************************)
(* iso8601.ParseString of package github.com/relvacode/iso8601, on the     *)
(* texts the model hands it: date-times of the shape                       *)
(* YYYY-MM-DDTHH:MM:SS followed by Z or +HH:MM or -HH:MM, and texts that   *)
(* are no ISO 8601 date-time at all.  The result is [t, err].              *)
(***************************************************************************)
num2(s, k) == DigitsToNat(SubSeq(s, k, k + 1))

iso8601ParseString(s) ==
  LET shape == /\ Len(s) \in {20, 25}
               /\ \A k \in 1..19 : IF k \in {5, 8} THEN s[k] = "-"
                                   ELSE IF k = 11 THEN s[k] = "T"
                                   ELSE IF k \in {14, 17} THEN s[k] = ":"
                                   ELSE isDigitChar(s[k])
               /\ IF Len(s) = 20 THEN s[20] = "Z"
                  ELSE /\ s[20] \in {"+", "-"}
                       /\ s[23] = ":"
                       /\ \A k \in {21, 22, 24, 25} : isDigitChar(s[k])
      Y  == DigitsToNat(SubSeq(s, 1, 4))
      M  == num2(s, 6)
      d  == num2(s, 9)
      h  == num2(s, 12)
      m  == num2(s, 15)
      sc == num2(s, 18)
      l  == IF Len(s) = 20 THEN UTC
            ELSE FixedZone((IF s[20] = "-" THEN -1 ELSE 1)
                           * (num2(s, 21) * 3600 + num2(s, 24) * 60))
  IN  IF ~shape THEN [t |-> ZeroTime, err |-> "ParseError"]
      ELSE IF \/ M < 1 \/ M > 12 \/ d < 1 \/ d > daysIn(M, Y)
              \/ h > 23 \/ m > 59 \/ sc > 59
           THEN [t |-> ZeroTime, err |-> "ParseError"]
      ELSE [t |-> Date(Y, M, d, h, m, sc, 0, l), err |-> "nil"]

ParseISO8601String(s) == iso8601ParseString(s)

(***************************************************************************)
(* conversion.go: To1AM.                                                   *)
(***************************************************************************)
To1AM(t) ==
  LET f == Fields(t)
  IN  Date(f.year, f.month, f.day, 1, 0, 0, 0, t.loc)

(***************************************************************************)
(* time.Parse("Jan _2, 2006 15:04 am", value).  The layout splits into the *)
(* elements Jan, _2, 2006, 15 and 04, with the literal text " ", ", ",     *)
(* " ", ":" before them and " am" after the last.  Each step returns       *)
(* [ok, n, rest].                                                          *)
(***************************************************************************)
UpperChars == <<"A", "B", "C", "D", "E", "F", "G", "H", "I", "J", "K", "L", "M",
                "N", "O", "P", "Q", "R", "S", "T", "U", "V", "W", "X", "Y", "Z">>

LowerChars == <<"a", "b", "c", "d", "e", "f", "g", "h", "i", "j", "k", "l", "m",
                "n", "o", "p", "q", "r", "s", "t", "u", "v", "w", "x", "y", "z">>

\* c | ('a' - 'A') for a letter c
lowerOf(c) ==
  IF \E k \in 1..26 : UpperChars[k] = c
  THEN LowerChars[CHOOSE k \in 1..26 : UpperChars[k] = c]
  ELSE c

isLowerLetter(c) == \E k \in 1..26 : LowerChars[k] = c

\* match: s1 and s2, of one length, are equal ignoring the case of letters
match(s1, s2) ==
  \A k \in 1..Len(s1) :
     \/ s1[k] = s2[k]
     \/ (lowerOf(s1[k]) = lowerOf(s2[k]) /\ isLowerLetter(lowerOf(s1[k])))

shortMonthNames ==
  << <<"J", "a", "n">>, <<"F", "e", "b">>, <<"M", "a", "r">>, <<"A", "p", "r">>,
     <<"M", "a", "y">>, <<"J", "u", "n">>, <<"J", "u", "l">>, <<"A", "u", "g">>,
     <<"S", "e", "p">>, <<"O", "c", "t">>, <<"N", "o", "v">>, <<"D", "e", "c">> >>

\* lookup(shortMonthNames, value): n is the index of the first name value starts with
lookupName(tab, val) ==
  LET hits == {k \in 1..Len(tab) :
                 Len(val) >= Len(tab[k]) /\ match(SubSeq(val, 1, Len(tab[k])), tab[k])}
  IN  IF hits = {} THEN [ok |-> FALSE, n |-> -1, rest |-> val]
      ELSE LET k == CHOOSE j \in hits : \A q \in hits : j <= q
           IN  [ok |-> TRUE, n |-> k - 1, rest |-> Drop(val, Len(tab[k]))]

RECURSIVE cutspace(_)
cutspace(s) == IF s # <<>> /\ s[1] = " " THEN cutspace(Tail(s)) ELSE s

\* skip: remove prefix from value, a run of spaces standing for any run of spaces
RECURSIVE skip(_, _)
skip(value, prefix) ==
  IF prefix = <<>> THEN [ok |-> TRUE, n |-> 0, rest |-> value]
  ELSE IF prefix[1] = " "
       THEN IF value # <<>> /\ value[1] # " " THEN [ok |-> FALSE, n |-> 0, rest |-> value]
            ELSE skip(cutspace(value), cutspace(prefix))
  ELSE IF value = <<>> \/ value[1] # prefix[1] THEN [ok |-> FALSE, n |-> 0, rest |-> value]
  ELSE skip(Tail(value), Tail(prefix))

isDigit(s, k) == Len(s) > k /\ isDigitChar(s[k + 1])

\* getnum: one or two digits, or exactly two when fixed
getnum(s, fixed) ==
  IF ~isDigit(s, 0) THEN [ok |-> FALSE, n |-> 0, rest |-> s]
  ELSE IF ~isDigit(s, 1)
       THEN IF fixed THEN [ok |-> FALSE, n |-> 0, rest |-> s]
            ELSE [ok |-> TRUE, n |-> DigitVal(s[1]), rest |-> Tail(s)]
  ELSE [ok |-> TRUE, n |-> DigitVal(s[1]) * 10 + DigitVal(s[2]), rest |-> Drop(s, 2)]

\* the element 2006: exactly four digits
getLongYear(s) ==
  IF Len(s) < 4 \/ ~isDigit(s, 0) \/ ~AllDigits(SubSeq(s, 1, 4))
  THEN [ok |-> FALSE, n |-> 0, rest |-> s]
  ELSE [ok |-> TRUE, n |-> DigitsToNat(SubSeq(s, 1, 4)), rest |-> Drop(s, 4)]

\* the element _2: one leading space may pad a one-digit day
getUnderDay(s) == getnum(IF s # <<>> /\ s[1] = " " THEN Tail(s) ELSE s, FALSE)

ParseFailed == [t |-> ZeroTime, err |-> "ParseError"]

timeParseBubble(value) ==
  LET mon == lookupName(shortMonthNames, value)
      p1  == skip(mon.rest, <<" ">>)
      day == getUnderDay(p1.rest)
      p2  == skip(day.rest, <<",", " ">>)
      yr  == getLongYear(p2.rest)
      p3  == skip(yr.rest, <<" ">>)
      hr  == getnum(p3.rest, FALSE)
      p4  == skip(hr.rest, <<":">>)
      mi  == getnum(p4.rest, TRUE)
      p5  == skip(mi.rest, <<" ", "a", "m">>)
  IN  IF ~mon.ok \/ ~p1.ok \/ ~day.ok \/ ~p2.ok \/ ~yr.ok \/ ~p3.ok THEN ParseFailed
      ELSE IF ~hr.ok \/ hr.n >= 24 THEN ParseFailed
      ELSE IF ~p4.ok \/ ~mi.ok \/ mi.n >= 60 THEN ParseFailed
      ELSE IF ~p5.ok \/ p5.rest # <<>> THEN ParseFailed
      ELSE IF day.n < 1 \/ day.n > daysIn(mon.n + 1, yr.n) THEN ParseFailed
      ELSE [t |-> Date(yr.n, mon.n + 1, day.n, hr.n, mi.n, 0, 0, UTC), err |-> "nil"]

\* slip: the hour read on a 12-hour clock
ParseBubbleTime12h(s) ==
  LET r == timeParseBubble(s)
  IN  IF r.err = "nil" /\ r.t.sod >= 12 * 3600
      THEN [r EXCEPT !.t.sod = r.t.sod - 12 * 3600]
      ELSE r

ParseBubbleTime(s) == timeParseBubble(s)

(***************************************************************************)
(* conversion.go: the month-abbreviation lookups over the package's two    *)
(* maps, monthAbbreviations (keyed by time.Month) and                      *)
(* monthNumberAbbreviations (keyed by int).  time.Month is an integer type *)
(* whose values January..December are 1..12.                               *)
(***************************************************************************)
MonthAbbreviationTable == [m \in 1..12 |-> shortMonthNames[m]]

EmptyString == <<>>

GetMonthAbbreviation(table, month) ==
  IF month \in DOMAIN table THEN table[month] ELSE EmptyString

\* slip: the month number taken as zero-based
GetMonthAbbreviationByIntZeroBased(table, month) ==
  IF month + 1 \in DOMAIN table THEN table[month + 1] ELSE EmptyString

GetMonthAbbreviationByInt(table, month) ==
  IF month \in DOMAIN table THEN table[month] ELSE EmptyString

(***************************************************************************)
(* The values the caller passes.                                           *)
(***************************************************************************)
Alphabet == {"-", "+", "a", "0", "2", "9"}

\* every text of at most MaxStrLen letters, and the decimal texts around the
\* ends of the integer range
StringInputs ==
  UNION {[1..k -> Alphabet] : k \in 0..MaxStrLen}
  \cup {FormatInt(MaxInt), FormatInt(MaxInt + 1), FormatInt(MinInt), FormatInt(MinInt - 1),
        <<"+">> \o FormatInt(MaxInt), <<"0", "0">> \o FormatInt(MaxInt)}

\* texts that are no ISO 8601 date-time
JunkStrings == {<<>>, <<"a", "b", "c">>, <<"b", "a", "d">>, <<"T">>}

\* +05:30, -05:00, a local mean time of +00:19:32, half a minute west, and London
SampleZones ==
  {UTC, FixedZone(19800), FixedZone(-18000), FixedZone(1172), FixedZone(-30), London}

SampleDates ==
  {<<2021, 1, 1>>, <<2021, 6, 15>>, <<2021, 3, 28>>, <<2021, 10, 31>>,
   <<2020, 2, 29>>, <<1969, 12, 31>>, <<2021, 12, 31>>}

SampleClocks == {<<0, 0, 0>>, <<1, 30, 0>>, <<12, 0, 0>>, <<23, 59, 59>>}

SampleNanos == {0, 500000000}

\* instants built as a program builds them, with time.Date
TimeInputs ==
  {Date(d[1], d[2], d[3], c[1], c[2], c[3], n, l) :
     d \in SampleDates, c \in SampleClocks, n \in SampleNanos, l \in SampleZones}

\* the parts of a Bubble date text, well-formed and not
BubbleParts ==
  [mon    : {<<"N", "o", "v">>, <<"n", "o", "V">>, <<"F", "e", "b">>, <<"N", "o", "x">>},
   sp1    : {<<" ">>, <<" ", " ">>, <<>>},
   day    : {<<"1">>, <<"0", "1">>, <<"2", "9">>, <<"0">>},
   sp2    : {<<",", " ">>, <<",", " ", " ">>, <<",">>},
   year   : {<<"2", "0", "2", "1">>, <<"2", "0", "2", "0">>, <<"2", "1">>},
   hour   : {<<"9">>, <<"1", "3">>, <<"2", "4">>},
   min    : {<<"0", "0">>, <<"5">>},
   suffix : {<<" ", "a", "m">>, <<" ", "p", "m">>, <<" ", " ", "a", "m">>}]

BubbleText(c) ==
  c.mon \o c.sp1 \o c.day \o c.sp2 \o c.year \o <<" ">> \o c.hour \o <<":">> \o c.min
  \o c.suffix

MonthKeys == (0 - MaxMonthKey)..(12 + MaxMonthKey)

NoValue == <<>>

NoFrom == [fn |-> "none", arg |-> NoValue]

(***************************************************************************)
(* The caller: idle, or holding the result of the call it just made.       *)
(***************************************************************************)
Init ==
  /\ pc = "idle"
  /\ fn = "none"
  /\ arg = NoValue
  /\ out = NoValue
  /\ err = "nil"
  /\ from = NoFrom
  /\ clock = 0
  /\ monthAbbreviations = MonthAbbreviationTable
  /\ monthNumberAbbreviations = MonthAbbreviationTable

\* the call fn(a) has returned (o, e); src says where a came from
Returned(f, a, o, e, src) ==
  /\ pc' = "done"
  /\ fn' = f
  /\ arg' = a
  /\ out' = o
  /\ err' = e
  /\ from' = src
  /\ UNCHANGED <<clock, monthAbbreviations, monthNumberAbbreviations>>

CallParseJavaScriptTime ==
  /\ pc = "idle"
  /\ \E i \in IntRange :
       Returned("ParseJavaScriptTime", i, ParseJavaScriptTime(i), "nil", NoFrom)

\* on any text
CallParseJavaScriptTimeStringText ==
  /\ pc = "idle"
  /\ \E s \in StringInputs :
       LET r == ParseJavaScriptTimeString(s, timeNow(clock))
       IN  Returned("ParseJavaScriptTimeString", s, r.t, r.err, NoFrom)

\* on the decimal text of an integer
CallParseJavaScriptTimeStringOfInt ==
  /\ pc = "idle"
  /\ \E i \in IntRange :
       LET r == ParseJavaScriptTimeString(FormatInt(i), timeNow(clock))
       IN  Returned("ParseJavaScriptTimeString", FormatInt(i), r.t, r.err,
                    [fn |-> "FormatInt", arg |-> i])

CallToJavaScriptTime ==
  /\ pc = "idle"
  /\ \E t \in TimeInputs :
       Returned("ToJavaScriptTime", t, ToJavaScriptTime(t), "nil", NoFrom)

\* on the instant ParseJavaScriptTime has just returned
CallToJavaScriptTimeOfParsed ==
  /\ pc = "done"
  /\ fn = "ParseJavaScriptTime"
  /\ Returned("ToJavaScriptTime", out, ToJavaScriptTime(out), "nil",
              [fn |-> fn, arg |-> arg])

CallToISO8601String ==
  /\ pc = "idle"
  /\ \E t \in TimeInputs :
       Returned("ToISO8601String", t, ToISO8601String(t), "nil", NoFrom)

CallParseISO8601StringText ==
  /\ pc = "idle"
  /\ \E s \in JunkStrings :
       LET r == ParseISO8601String(s)
       IN  Returned("ParseISO8601String", s, r.t, r.err, NoFrom)

\* on the text ToISO8601String has just returned
CallParseISO8601StringOfFormatted ==
  /\ pc = "done"
  /\ fn = "ToISO8601String"
  /\ LET r == ParseISO8601String(out)
     IN  Returned("ParseISO8601String", out, r.t, r.err, [fn |-> fn, arg |-> arg])

CallParseBubbleTime ==
  /\ pc = "idle"
  /\ \E c \in BubbleParts :
       LET r == ParseBubbleTime(BubbleText(c))
       IN  Returned("ParseBubbleTime", BubbleText(c), r.t, r.err,
                    [fn |-> "BubbleText", arg |-> c])

CallTo1AM ==
  /\ pc = "idle"
  /\ \E t \in TimeInputs :
       Returned("To1AM", t, To1AM(t), "nil", NoFrom)

\* on the instant To1AM has just returned
CallTo1AMAgain ==
  /\ pc = "done"
  /\ fn = "To1AM"
  /\ from = NoFrom
  /\ Returned("To1AM", out, To1AM(out), "nil", [fn |-> fn, arg |-> arg])

CallGetMonthAbbreviation ==
  /\ pc = "idle"
  /\ \E m \in MonthKeys :
       Returned("GetMonthAbbreviation", m,
                GetMonthAbbreviation(monthAbbreviations, m), "nil", NoFrom)

CallGetMonthAbbreviationByInt ==
  /\ pc = "idle"
  /\ \E m \in MonthKeys :
       Returned("GetMonthAbbreviationByInt", m,
                GetMonthAbbreviationByInt(monthNumberAbbreviations, m), "nil", NoFrom)

\* the caller drops the result
Return ==
  /\ pc = "done"
  /\ pc' = "idle"
  /\ fn' = "none"
  /\ arg' = NoValue
  /\ out' = NoValue
  /\ err' = "nil"
  /\ from' = NoFrom
  /\ UNCHANGED <<clock, monthAbbreviations, monthNumberAbbreviations>>

\* a second passes between two calls
Tick ==
  /\ pc = "idle"
  /\ clock < MaxClock
  /\ clock' = clock + 1
  /\ UNCHANGED <<pc, fn, arg, out, err, from, monthAbbreviations, monthNumberAbbreviations>>

Next ==
  \/ CallParseJavaScriptTime
  \/ CallParseJavaScriptTimeStringText
  \/ CallParseJavaScriptTimeStringOfInt
  \/ CallToJavaScriptTime
  \/ CallToJavaScriptTimeOfParsed
  \/ CallToISO8601String
  \/ CallParseISO8601StringText
  \/ CallParseISO8601StringOfFormatted
  \/ CallParseBubbleTime
  \/ CallTo1AM
  \/ CallTo1AMAgain
  \/ CallGetMonthAbbreviation
  \/ CallGetMonthAbbreviationByInt
  \/ Return
  \/ Tick

Spec == Init /\ [][Next]_vars

Done(f) == pc = "done" /\ fn = f

(***************************************************************************)
(* Properties.                                                             *)
(***************************************************************************)
SameInstant(a, b) == a.day = b.day /\ a.sod = b.sod /\ a.nsec = b.nsec

\* milliseconds from the Unix epoch to t, rounded down
MillisOf(t) == Unix(t) * 1000 + t.nsec \div 1000000

\* C1: ParseJavaScriptTime(i) is the instant exactly i milliseconds from the
\* Unix epoch, for i of either sign and whether or not a multiple of 1000:
\* seconds = i/1000 and nanoseconds = (i%1000)*1000000 under truncating
\* division give seconds*1000 + nanoseconds/1000000 = i, and the nanosecond
\* product stays below 10^9 in size, far inside 64 bits.
C1_EpochMillisExact ==
  Done("ParseJavaScriptTime") =>
    LET seconds     == Quot(arg, 1000)
        nanoseconds == Rem(arg, 1000) * 1000 * 1000
    IN  /\ seconds * 1000 + Quot(nanoseconds, 1000000) = arg
        /\ nanoseconds \in -999999999..999999999
        /\ out.nsec \in 0..999999999
        /\ out.nsec % 1000000 = 0
        /\ MillisOf(out) = arg

C1_Witness ==
  Done("ParseJavaScriptTime") /\ arg < 0 /\ Rem(arg, 1000) # 0 /\ MillisOf(out) = arg

\* a text is a base-10 integer of the integer width: an optional sign, then
\* one or more digits whose value lies in MinInt..MaxInt
IsBase10Int(s) ==
  /\ s # <<>>
  /\ LET body == IF s[1] \in {"+", "-"} THEN Tail(s) ELSE s
     IN  /\ body # <<>>
         /\ AllDigits(body)
         /\ IF s[1] = "-" THEN -DigitsToNat(body) >= MinInt ELSE DigitsToNat(body) <= MaxInt

\* C2: on the base-10 text of an integer i, ParseJavaScriptTimeString returns
\* no error and the instant ParseJavaScriptTime(i); it returns an error exactly
\* on the texts that are no base-10 integer of the integer width.
C2_StringAgreesWithInt ==
  Done("ParseJavaScriptTimeString") =>
    /\ from.fn = "FormatInt" => (err = "nil" /\ out = ParseJavaScriptTime(from.arg))
    /\ err # "nil" <=> ~IsBase10Int(arg)

C2_Witness ==
  /\ Done("ParseJavaScriptTimeString")
  /\ from.fn = "FormatInt"
  /\ from.arg < 0
  /\ Rem(from.arg, 1000) # 0
  /\ err = "nil"
  /\ out = ParseJavaScriptTime(from.arg)

ParseFns == {"ParseJavaScriptTimeString", "ParseISO8601String", "ParseBubbleTime"}

\* C3 as stated: whenever a parsing function fails, the instant returned with
\* the error is the current instant.
C3_PlaceholderIsNow ==
  (pc = "done" /\ fn \in ParseFns /\ err # "nil") => out = timeNow(clock)

\* C3, amended: a failure is a returned error value; ParseJavaScriptTimeString
\* pairs it with the current instant, ParseBubbleTime with the zero Time
\* (January 1 of year 1, UTC), which is not the current instant.
C3_Placeholders ==
  (pc = "done" /\ err # "nil") =>
    /\ fn \in ParseFns
    /\ err \in {"ErrSyntax", "ErrRange", "ParseError"}
    /\ fn = "ParseJavaScriptTimeString" => out = timeNow(clock)
    /\ fn = "ParseBubbleTime" => (out = ZeroTime /\ out # timeNow(clock))

C3_Witness ==
  /\ Done("ParseJavaScriptTimeString")
  /\ err = "ErrSyntax"
  /\ clock > 0
  /\ out = timeNow(clock)

TruncSecond(t) == [t EXCEPT !.nsec = 0]

\* C4 as stated: for any instant t, ParseISO8601String(ToISO8601String(t))
\* returns no error and t truncated to whole seconds, with t's zone offset.
C4_RoundTripAnyInstant ==
  (Done("ParseISO8601String") /\ from.fn = "ToISO8601String") =>
    /\ err = "nil"
    /\ SameInstant(out, TruncSecond(from.arg))
    /\ offsetOf(out) = offsetOf(from.arg)

\* C4, amended: for an instant t of the years 0000 to 9999 the round trip
\* returns no error; the text carries the zone offset without its seconds, so
\* the result has the offset of t cut to whole minutes and lies that cut
\* after t truncated to whole seconds: it is the same point in time, with the
\* same offset, exactly when t's offset is a whole number of minutes.
C4_RoundTrip ==
  (Done("ParseISO8601String") /\ from.fn = "ToISO8601String") =>
    LET t   == from.arg
        cut == Rem(offsetOf(t), 60)
    IN  /\ err = "nil"
        /\ out.nsec = 0
        /\ Unix(out) = Unix(t) + cut
        /\ offsetOf(out) = offsetOf(t) - cut
        /\ cut = 0 => /\ SameInstant(out, TruncSecond(t))
                      /\ offsetOf(out) = offsetOf(t)

C4_Witness ==
  /\ Done("ParseISO8601String")
  /\ from.fn = "ToISO8601String"
  /\ from.arg.nsec > 0
  /\ offsetOf(from.arg) = 19800
  /\ err = "nil"
  /\ SameInstant(out, TruncSecond(from.arg))

\* the first 19 characters of s are YYYY-MM-DDTHH:MM:SS and spell the fields f
DateTimeText(s, f) ==
  /\ Len(s) >= 19
  /\ \A k \in 1..19 : IF k \in {5, 8} THEN s[k] = "-"
                      ELSE IF k = 11 THEN s[k] = "T"
                      ELSE IF k \in {14, 17} THEN s[k] = ":"
                      ELSE isDigitChar(s[k])
  /\ DigitsToNat(SubSeq(s, 1, 4)) = f.year
  /\ num2(s, 6) = f.month
  /\ num2(s, 9) = f.day
  /\ num2(s, 12) = f.hour
  /\ num2(s, 15) = f.min
  /\ num2(s, 18) = f.sec

NewYear2021UTC == Date(2021, 1, 1, 0, 0, 0, 0, UTC)

NewYear2021Text ==
  <<"2", "0", "2", "1", "-", "0", "1", "-", "0", "1", "T",
    "0", "0", ":", "0", "0", ":", "0", "0">>

\* C5 as stated: for every instant t, offset zero included, ToISO8601String(t)
\* is YYYY-MM-DDTHH:MM:SS followed by the numeric offset of t as +HH:MM or
\* -HH:MM, and 2021-01-01 00:00:00 at offset zero gives
\* "2021-01-01T00:00:00+00:00".
C5_AlwaysNumericOffset ==
  Done("ToISO8601String") =>
    /\ DateTimeText(out, Fields(arg))
    /\ Len(out) = 25
    /\ out[20] \in {"+", "-"}
    /\ out[23] = ":"
    /\ (IF out[20] = "-" THEN -1 ELSE 1) * (num2(out, 21) * 3600 + num2(out, 24) * 60)
         = offsetOf(arg)
    /\ arg = NewYear2021UTC => out = NewYear2021Text \o <<"+", "0", "0", ":", "0", "0">>

\* C5, amended: for an instant t of the years 0000 to 9999, ToISO8601String(t)
\* is YYYY-MM-DDTHH:MM:SS, the fields of t in its own zone, followed by "Z"
\* when the offset of t is zero and otherwise by the sign, hours and minutes
\* of the offset (its seconds dropped); 2021-01-01 00:00:00 at offset zero
\* gives "2021-01-01T00:00:00Z".
C5_ISOShape ==
  Done("ToISO8601String") =>
    LET off  == offsetOf(arg)
        zone == Quot(off, 60)
        abs  == IF zone < 0 THEN -zone ELSE zone
    IN  /\ DateTimeText(out, Fields(arg))
        /\ IF off = 0 THEN out = SubSeq(out, 1, 19) \o <<"Z">>
           ELSE /\ Len(out) = 25
                /\ out[20] = (IF zone < 0 THEN "-" ELSE "+")
                /\ out[23] = ":"
                /\ \A k \in {21, 22, 24, 25} : isDigitChar(out[k])
                /\ num2(out, 21) = abs \div 60
                /\ num2(out, 24) = abs % 60
        /\ arg = NewYear2021UTC => out = NewYear2021Text \o <<"Z">>

C5_Witness ==
  Done("ToISO8601String") /\ arg = NewYear2021UTC /\ out = NewYear2021Text \o <<"Z">>

\* C6: ToJavaScriptTime returns whole seconds: on the instant that
\* ParseJavaScriptTime(i) returned it gives s with s*1000 <= i < (s+1)*1000,
\* also for negative i that are no multiple of 1000.
C6_SecondsNotMillis ==
  (Done("ToJavaScriptTime") /\ from.fn = "ParseJavaScriptTime") =>
    /\ out * 1000 <= from.arg
    /\ from.arg < (out + 1) * 1000

C6_Witness ==
  /\ Done("ToJavaScriptTime")
  /\ from.fn = "ParseJavaScriptTime"
  /\ from.arg < 0
  /\ Rem(from.arg, 1000) # 0
  /\ out * 1000 < from.arg

IsSpaces(s) == s # <<>> /\ \A k \in 1..Len(s) : s[k] = " "

LowerSeq(s) == [k \in 1..Len(s) |-> lowerOf(s[k])]

MonthNumber(mon) == CHOOSE k \in 1..12 : LowerSeq(mon) = LowerSeq(shortMonthNames[k])

IsNumber(s, lens) == Len(s) \in lens /\ AllDigits(s)

DaysOfMonth(year, month) ==
  IF month = 12 THEN 31
  ELSE DaysFromCivil(year, month + 1, 1) - DaysFromCivil(year, month, 1)

\* the parts make a text that time.Parse accepts under the Bubble layout
AcceptedParts(c) ==
  /\ \E k \in 1..12 : LowerSeq(c.mon) = LowerSeq(shortMonthNames[k])
  /\ IsSpaces(c.sp1)
  /\ IsNumber(c.day, {1, 2})
  /\ c.sp2 # <<>> /\ c.sp2[1] = "," /\ IsSpaces(Tail(c.sp2))
  /\ IsNumber(c.year, {4})
  /\ DigitsToNat(c.day) \in 1..DaysOfMonth(DigitsToNat(c.year), MonthNumber(c.mon))
  /\ IsNumber(c.hour, {1, 2}) /\ DigitsToNat(c.hour) < 24
  /\ IsNumber(c.min, {2}) /\ DigitsToNat(c.min) < 60
  /\ Len(c.suffix) >= 3
  /\ IsSpaces(SubSeq(c.suffix, 1, Len(c.suffix) - 2))
  /\ Drop(c.suffix, Len(c.suffix) - 2) = <<"a", "m">>

\* the parts make a text of exactly the shape "Mon D, YYYY H:MM am"
ExactParts(c) ==
  /\ \E k \in 1..12 : c.mon = shortMonthNames[k]
  /\ c.sp1 = <<" ">>
  /\ IsNumber(c.day, {1, 2}) /\ c.day[1] # "0"
  /\ c.sp2 = <<",", " ">>
  /\ IsNumber(c.year, {4})
  /\ IsNumber(c.hour, {1, 2})
  /\ IsNumber(c.min, {2})
  /\ c.suffix = <<" ", "a", "m">>

\* the instant t is what the parts say, the hour read on the 24-hour clock
WrittenFields(c, t) ==
  /\ Fields(t) = [year |-> DigitsToNat(c.year), month |-> MonthNumber(c.mon),
                  day |-> DigitsToNat(c.day), hour |-> DigitsToNat(c.hour),
                  min |-> DigitsToNat(c.min), sec |-> 0]
  /\ t.nsec = 0
  /\ t.loc = UTC

\* C7 as stated: ParseBubbleTime succeeds only on texts of the exact shape
\* "Mon D, YYYY H:MM am".
C7_OnlyExactShape ==
  (Done("ParseBubbleTime") /\ err = "nil") => ExactParts(from.arg)

\* C7, amended: ParseBubbleTime succeeds exactly on a month abbreviation in
\* any letter case, one or more spaces, a day of one or two digits that
\* exists in the month, a comma, one or more spaces, a year of four digits,
\* one or more spaces, an hour of one or two digits below 24, a colon, a
\* minute of two digits below 60, one or more spaces and "am"; on success the
\* instant has the month, day, year and minute written and the hour as
\* written, read on the 24-hour clock.
C7_BubbleShape ==
  Done("ParseBubbleTime") =>
    /\ err = "nil" <=> AcceptedParts(from.arg)
    /\ err = "nil" => WrittenFields(from.arg, out)

C7_Witness ==
  /\ Done("ParseBubbleTime")
  /\ err = "nil"
  /\ from.arg.hour = <<"1", "3">>
  /\ from.arg.sp1 = <<" ", " ">>
  /\ Fields(out).hour = 13

\* C9: To1AM(t) has the year, month, day and zone of t, hour 1, minute 0,
\* second 0 and no sub-second part, and To1AM of the result is the result.
C9_To1AM ==
  Done("To1AM") =>
    LET f == Fields(arg)
        g == Fields(out)
    IN  /\ g.year = f.year /\ g.month = f.month /\ g.day = f.day
        /\ g.hour = 1 /\ g.min = 0 /\ g.sec = 0
        /\ out.nsec = 0
        /\ out.loc = arg.loc
        /\ from.fn = "To1AM" => out = arg

\* C10: in every state the two lookups agree on every key: the 3-character
\* abbreviation ("Jan" for 1 through "Dec" for 12) on 1..12 and the empty
\* string on any other key; the calls return just that, and the tables are
\* what they were at the start.
C10_MonthLookups ==
  /\ monthAbbreviations = MonthAbbreviationTable
  /\ monthNumberAbbreviations = MonthAbbreviationTable
  /\ \A n \in MonthKeys :
       LET a == GetMonthAbbreviation(monthAbbreviations, n)
           b == GetMonthAbbreviationByInt(monthNumberAbbreviations, n)
       IN  /\ a = b
           /\ n \in 1..12 => Len(a) = 3
           /\ n = 1 => a = <<"J", "a", "n">>
           /\ n = 12 => a = <<"D", "e", "c">>
           /\ n \notin 1..12 => a = <<>>
  /\ (Done("GetMonthAbbreviation") \/ Done("GetMonthAbbreviationByInt")) =>
       out = (IF arg \in 1..12 THEN MonthAbbreviationTable[arg] ELSE <<>>)

C10_Witness ==
  Done("GetMonthAbbreviationByInt") /\ arg = 13 /\ out = <<>>

====
